---- MODULE Spec2Model ----
(***************************************************************************)
(* The FFmpegUtils singleton of src/src/utils/ffmpegUtils.js as a state    *)
(* machine.  Every call of load() or convertToGif() is a process that runs *)
(* from one suspension point (await, setInterval tick) to the next in one  *)
(* atomic step, as JavaScript's single-threaded run-to-completion does.    *)
(* The external transcoding engine (@ffmpeg/ffmpeg) is modelled by what    *)
(* the wrapper can observe of it: a bring-up that resolves or rejects, a   *)
(* virtual file system of named files, one command at a time that resolves *)
(* (with or without having produced its output file) or rejects, and       *)
(* progress events while a command runs.                                   *)
(*                                                                         *)
(* The page around the singleton (src/src/App.js, TimeRangeSelector in     *)
(* src/unnamed/part_000, src/src/components/VideoUploader.js) is modelled  *)
(* by its useState cells; each event handler, with the render and the      *)
(* effects that follow it, is one atomic step.  Spec is the singleton used *)
(* by arbitrary clients, QualitySpec one convertToGif call with any        *)
(* quality, AppSpec the page using the singleton through handleConvert.    *)
(***************************************************************************)
EXTENDS Integers, Sequences, FiniteSets, TLC

\* ---------------------------------------------------------------- bounds
\* Number of load()/convertToGif() calls made on the singleton.
NumCalls == 2

Calls == 1..NumCalls

\* Number of conversions started from the page (at most NumCalls).
MaxConversions == 1

\* The (startTime, endTime) pairs calls are made with: endTime greater than,
\* equal to and less than startTime.
TimeRanges == {<<2, 7>>, <<5, 5>>, <<7, 2>>}

\* ------------------------------------------------------------ JS values
\* JavaScript null (this.ffmpeg, this.progressCallback); callbacks and
\* engine instances are numbered from 1.
null == 0

\* Messages of the errors the engine's bring-up can reject with.
LoadErrorMessages == {"E1", "E2"}
\* Messages of the errors fetchFile, FS writeFile and a command can throw.
ErrorMessages == {"E3"}
\* Message of the error ffmpeg.run throws when a command is already running.
BusyMessage == "ffmpeg.wasm can only run one command at a time"
\* Message of the error FS throws for a missing file.
FSErrorMessage == "FS error"

\* Values a promise settles with: an Error object, a string, a Blob, or
\* undefined.  `text` is the Error's message / the string, as the list of
\* the pieces it was concatenated from; `data` is the call whose output
\* the Blob's bytes are (0: none).
Undefined == [type |-> "undefined", text |-> << >>, data |-> 0]
ErrorValue(m) == [type |-> "Error", text |-> <<m>>, data |-> 0]
StringValue(parts) == [type |-> "string", text |-> parts, data |-> 0]
BlobValue(mime, owner) == [type |-> "Blob", text |-> <<mime>>, data |-> owner]

Pending == [state |-> "pending", value |-> Undefined]
Resolved(v) == [state |-> "resolved", value |-> v]
Rejected(v) == [state |-> "rejected", value |-> v]

\* ------------------------------------------------------------ file names
\* A file name is the list of its dot-separated parts.
VideoFiles == {<<"clip", "MP4">>, <<"clip", "webm">>}

toLowerCase(s) == IF s = "MP4" THEN "mp4" ELSE s

\* filename.split(".").pop().toLowerCase()
getFileExtension(filename) == toLowerCase(filename[Len(filename)])

inputFileNameOf(videoFile) == <<"input", getFileExtension(videoFile)>>
outputFileName == <<"output", "gif">>
paletteFileName == <<"palette", "png">>

FileNames == {inputFileNameOf(f) : f \in VideoFiles} \cup {paletteFileName, outputFileName}

\* The engine's virtual file system: file name -> the call whose bytes the
\* file holds (0: the file does not exist).
EmptyFS == [f \in FileNames |-> 0]

VARIABLES
  ffmpeg,            \* this.ffmpeg: null or the number of the engine instance
  isLoaded,          \* this.isLoaded
  isLoading,         \* this.isLoading
  progressCallback,  \* this.progressCallback: null or the call whose callback it is
  fs,                \* virtual file system of the engine instance this.ffmpeg
  running,           \* the call whose command the engine is executing (0: idle)
  kind,              \* per call: "none" (not made yet), "load", "convert"
  args,              \* per call: the arguments it was made with
  pc,                \* per call: the suspension point it is at
  result,            \* per call: its promise
  log,               \* per call: the engine operations it has performed, in order
  thrown,            \* per call: the errors its try blocks have caught
  joined,            \* per call: the bring-up it waited on or started (0: none)
  bringUps,          \* per engine instance: who started its bring-up, and the outcome
  delivered,         \* the progress event the last step handled, if it handled one
  commands,          \* per call: the argument lists it has passed to ffmpeg.run
  window,            \* the host environment the capability probe inspects
  mountEffectRan,    \* whether App's mount effect has run
  app,               \* the useState cells of App
  selector,          \* the useState cells of TimeRangeSelector
  uploader,          \* the useState cells of VideoUploader
  videoElements,     \* the files whose metadata (or load error) is still to arrive
  player,            \* the volume and isMuted useState cells of VideoPlayer
  videoRef,          \* volume and muted of the <video> element of VideoPlayer
  timeField,         \* a time text field: the time it shows, its text, the time read back
  awaiting           \* the calls a handleConvert invocation is awaiting

\* The state of the page around the singleton.
page == <<window, mountEffectRan, selector, uploader, videoElements, player, videoRef,
         timeField>>
ui == <<window, mountEffectRan, app, selector, uploader, videoElements, player, videoRef,
       timeField, awaiting>>

vars == <<ffmpeg, isLoaded, isLoading, progressCallback, fs, running, kind, args,
          pc, result, log, thrown, joined, bringUps, delivered, commands, ui>>

NoArgs == [videoFile |-> << >>, startTime |-> 0, endTime |-> 0, outputWidth |-> 0,
           fps |-> 0, quality |-> 0, callback |-> null]
NoDelivery == [emitter |-> 0, receiver |-> 0, ratio |-> 0, percent |-> 0]

\* One entry of a call's log.
Op(name, file) == [op |-> name, file |-> file]

\* constructor()
EngineInit ==
  /\ ffmpeg = null
  /\ isLoaded = FALSE
  /\ isLoading = FALSE
  /\ progressCallback = null
  /\ fs = EmptyFS
  /\ running = 0
  /\ kind = [c \in Calls |-> "none"]
  /\ args = [c \in Calls |-> NoArgs]
  /\ pc = [c \in Calls |-> "idle"]
  /\ result = [c \in Calls |-> Pending]
  /\ log = [c \in Calls |-> << >>]
  /\ thrown = [c \in Calls |-> << >>]
  /\ joined = [c \in Calls |-> 0]
  /\ bringUps = << >>
  /\ delivered = NoDelivery
  /\ commands = [c \in Calls |-> << >>]



\* ------------------------------------------------------------- commands
\* Number.prototype.toString and template-literal interpolation of a number.
toString(n) == ToString(n)

\* Math.max, Math.min
Max(a, b) == IF a >= b THEN a ELSE b
Min(a, b) == IF a <= b THEN a ELSE b

\* Math.floor(num / den), den > 0: a rounding that truncates.
MathFloor(num, den) == num \div den

\* Math.round(num / den), den > 0: the nearest integer, halves upwards.
MathRound(num, den) == (2 * num + den) \div (2 * den)

\* const normalizedQuality = Math.max(1, Math.min(100, quality));
normalizedQuality(quality) == Max(1, Min(100, quality))

\* const statsMode = Math.max(1, Math.round((100 - normalizedQuality) / 20));
statsMode(quality) == Max(1, MathRound(100 - normalizedQuality(quality), 20))

\* The arguments of the first ffmpeg.run: palette generation.  A file name
\* is the list of its parts, a template literal the list of its pieces.
PalettegenCommand(a) ==
  <<"-ss", toString(a.startTime), "-t", toString(a.endTime - a.startTime),
    "-i", inputFileNameOf(a.videoFile),
    "-vf",
    <<"fps=", toString(a.fps), ",scale=", toString(a.outputWidth),
      ":-1:flags=lanczos,palettegen=stats_mode=", toString(statsMode(a.quality))>>,
    paletteFileName>>

\* A second command whose -t is the end time instead of the duration.
PaletteuseCommandToEndTime(a) ==
  <<"-ss", toString(a.startTime), "-t", toString(a.endTime),
    "-i", inputFileNameOf(a.videoFile),
    "-i", paletteFileName, "-lavfi",
    <<"fps=", toString(a.fps), ",scale=", toString(a.outputWidth),
      ":-1:flags=lanczos [x]; [x][1:v] paletteuse=dither=bayer:bayer_scale=5">>,
    "-loop", "0", outputFileName>>

\* The arguments of the second ffmpeg.run: palette application.
PaletteuseCommand(a) ==
  <<"-ss", toString(a.startTime), "-t", toString(a.endTime - a.startTime),
    "-i", inputFileNameOf(a.videoFile),
    "-i", paletteFileName, "-lavfi",
    <<"fps=", toString(a.fps), ",scale=", toString(a.outputWidth),
      ":-1:flags=lanczos [x]; [x][1:v] paletteuse=dither=bayer:bayer_scale=5">>,
    "-loop", "0", outputFileName>>

\* The argument lists of the commands among the operations ops of a call
\* made with arguments a.
RECURSIVE Runs(_, _)
Runs(a, ops) ==
  IF ops = << >> THEN << >>
  ELSE (IF Head(ops).op = "palettegen" THEN <<PalettegenCommand(a)>>
        ELSE IF Head(ops).op = "paletteuse" THEN <<PaletteuseCommand(a)>>
        ELSE << >>) \o Runs(a, Tail(ops))

\* ------------------------------------------------------------ App state
\* JavaScript null where a File is expected.
NoFile == [name |-> << >>, type |-> << >>, size |-> 0, duration |-> 0]

\* The width, frame rate and quality of handleConvert's call, which are
\* also the defaults of convertToGif.
DefaultOutputWidth == 480
DefaultFps == 10
DefaultQuality == 75

\* const maxSize = 100 * 1024 * 1024;
maxSize == 100 * 1024 * 1024

\* The File objects a user picks or drops: name, media type (the parts
\* around "/"), size in bytes, and the duration its metadata reports.
UserFiles ==
  {[name |-> <<"clip", "MP4">>, type |-> <<"video", "mp4">>, size |-> maxSize, duration |-> 12],
   [name |-> <<"clip", "webm">>, type |-> <<"video", "webm">>, size |-> 1, duration |-> 4]}

\* The time a user types or drags the selector to: inside the longer file,
\* beyond the end of the shorter one.
EditTimes == {8}

\* The host environments: SharedArrayBuffer defined or not, what typeof
\* yields for WebAssembly and WebAssembly.instantiate, and the value of
\* window.crossOriginIsolated.
Windows ==
  [SharedArrayBuffer : {"function", "undefined"},
   WebAssembly : {"object", "undefined"},
   instantiate : {"function", "undefined"},
   crossOriginIsolated : {"true", "false", "undefined"}]

\* A host that provides everything the engine needs.
IsolatedWindow ==
  [SharedArrayBuffer |-> "function", WebAssembly |-> "object",
   instantiate |-> "function", crossOriginIsolated |-> "true"]

UnsupportedMessage == "Your browser does not fully support the features required for this application (e.g., SharedArrayBuffer, WebAssembly, or Cross-Origin Isolation). Please try a modern browser like Chrome or Firefox with Cross-Origin Isolation enabled."
CannotProcessMessage == "Cannot process video: Browser not fully supported. Please check the compatibility message above."
CannotConvertMessage == "Cannot convert: Browser not fully supported. Please check the compatibility message above."
SelectVideoMessage == "Please select a video first."
EndAfterStartMessage == "End time must be after start time for GIF conversion."
MetadataErrorMessage == "Failed to load video metadata. The file might be corrupted or in an unsupported format."
FallbackMessage == "Failed to convert video to GIF. Check console for details."

\* The useState initial values of App (currentTime and conversionProgress,
\* which only feed the display, are left out).
AppInitial ==
  [videoFile |-> NoFile, videoDuration |-> 0,
   timeRange |-> [startTime |-> 0, endTime |-> 0],
   isConverting |-> FALSE, gifUrl |-> null, error |-> "", isBrowserSupported |-> TRUE]

\* The useState initial values of TimeRangeSelector mounted with videoDuration.
SelectorInitial(videoDuration) == [startTime |-> 0, endTime |-> videoDuration]

\* The useState initial values of VideoUploader (isDragging is left out).
UploaderInitial == [error |-> ""]

\* The useState initial values of VideoPlayer that concern the sound;
\* volumes are in tenths, the step of the volume slider.
PlayerInitial == [volume |-> 10, isMuted |-> FALSE]

\* The <video> element as the browser creates it: full volume, not muted.
VideoElementInitial == [volume |-> 10, muted |-> FALSE]

\* A time text field before it has shown anything.
EmptyTimeField == [stage |-> "empty", millis |-> 0, text |-> << >>, read |-> << >>]

\* The string a list of concatenated pieces makes.
RECURSIVE Join(_)
Join(parts) == IF parts = << >> THEN "" ELSE Head(parts) \o Join(Tail(parts))

\* err.message: the message of an Error; a string has none (undefined,
\* which like "" is falsy).
messageOf(err) == IF err.type = "Error" THEN Join(err.text) ELSE ""

\* err.message || "Failed to convert video to GIF. Check console for details."
ShownError(err) == IF messageOf(err) # "" THEN messageOf(err) ELSE FallbackMessage

\* handleConvert after its await: the try block's tail, catch and finally.
\* URL.createObjectURL(gifBlob) is numbered after the call.
Continuation(c, r) ==
  IF c \in awaiting
    THEN /\ awaiting' = awaiting \ {c}
         /\ app' = [app EXCEPT !.isConverting = FALSE,
                               !.gifUrl = IF r.state = "resolved" THEN c ELSE @,
                               !.error = IF r.state = "rejected" THEN ShownError(r.value) ELSE @]
    ELSE UNCHANGED <<app, awaiting>>

\* The page before App's mount effect has run, on host w.
PageInit(w) ==
  /\ window = w
  /\ mountEffectRan = FALSE
  /\ app = AppInitial
  /\ selector = SelectorInitial(0)
  /\ uploader = UploaderInitial
  /\ videoElements = {}
  /\ player = PlayerInitial
  /\ videoRef = VideoElementInitial
  /\ timeField = EmptyTimeField
  /\ awaiting = {}

\* The singleton after construction, used by clients of its own.
Init == EngineInit /\ PageInit(IsolatedWindow)

\* ------------------------------------------------------------ helpers
\* The promise of call c settles with r, and the handleConvert invocation
\* awaiting it, if any, resumes in the same turn of the job queue.
Settle(c, r) == result' = [result EXCEPT ![c] = r] /\ Continuation(c, r)
Goto(c, l) == pc' = [pc EXCEPT ![c] = l]
\* A step that handles no progress event.
NoProgress == delivered' = NoDelivery
Logged(c, ops) ==
  /\ log' = [log EXCEPT ![c] = @ \o ops]
  /\ commands' = [commands EXCEPT ![c] = @ \o Runs(args[c], ops)]
\* The catch blocks: `at` is the operation that threw, `error` what it threw.
Caught(c, at, e) == thrown' = [thrown EXCEPT ![c] = Append(@, [at |-> at, error |-> e])]

\* Calls are made in the order of their numbers.
MayCall(c) ==
  /\ pc[c] = "idle"
  /\ kind[c] = "none"
  /\ IF c = 1 THEN TRUE ELSE kind[c - 1] # "none"

\* -------------------------------------------------------------- load()
\* load() without its isLoaded guard.
AlreadyLoadedIgnored == FALSE

\* if (this.isLoaded) return Promise.resolve();
AlreadyLoaded == isLoaded

\* load() without its isLoading guard.
LoadInFlightIgnored == FALSE

\* if (this.isLoading) { wait until loading completes }
LoadInFlight == isLoading

\* A catch block of load() that forgets to reset isLoading.
isLoadingLeftSet == TRUE

\* this.isLoading in the catch block of load()
isLoadingAfterFailure == FALSE

\* What load() rejects with: the error ffmpeg.load() threw.
LoadRejection(error) == error

\* The rejection of convertToGif when its load() failed.
LoadFailure(error) == StringValue(<<"Failed to load FFmpeg: ">> \o error.text)

\* A catch block that drops the underlying message.
ConversionFailureGeneric(error) == StringValue(<<"Failed to convert video: ">>)

\* The rejection of convertToGif when its second try block caught error.
ConversionFailure(error) == StringValue(<<"Failed to convert video: ">> \o error.text)

InvalidTimeRange == StringValue(<<"Invalid time range: end time must be greater than start time">>)

\* load(), from `this.isLoading = true` to `await this.ffmpeg.load()`:
\* a new engine instance, with an empty file system, starts its bring-up.
StartBringUp(c, cb) ==
  /\ isLoading' = TRUE
  /\ progressCallback' = cb
  /\ ffmpeg' = Len(bringUps) + 1
  /\ bringUps' = Append(bringUps, [by |-> c, outcome |-> "inflight", error |-> Undefined])
  /\ fs' = EmptyFS
  /\ joined' = [joined EXCEPT ![c] = Len(bringUps) + 1]
  /\ Goto(c, "loading")
  /\ UNCHANGED <<isLoaded, result>>

\* load(), the branch that polls isLoaded every 100 ms.
StartWaiting(c) ==
  /\ joined' = [joined EXCEPT ![c] = ffmpeg]
  /\ Goto(c, "waiting")
  /\ UNCHANGED <<ffmpeg, isLoaded, isLoading, bringUps, fs, result>>

\* A call of load(cb) by a client of the singleton.
LoadCall(c, cb) ==
  /\ MayCall(c)
  /\ NoProgress
  /\ kind' = [kind EXCEPT ![c] = "load"]
  /\ args' = [args EXCEPT ![c] = [NoArgs EXCEPT !.callback = cb]]
  /\ IF AlreadyLoaded
       THEN /\ Settle(c, Resolved(Undefined))
            /\ Goto(c, "done")
            /\ UNCHANGED <<ffmpeg, isLoaded, isLoading, progressCallback, bringUps, fs, joined>>
       ELSE IF LoadInFlight
         THEN StartWaiting(c) /\ UNCHANGED progressCallback
         ELSE StartBringUp(c, cb)
  /\ UNCHANGED <<running, log, commands, thrown, ui>>

\* ------------------------------------------------------- convertToGif()
\* A call of convertToGif(videoFile, startTime, endTime, ..., callback of c),
\* up to its first await: `await this.load(...)` or `await fetchFile(...)`.
ConvertCall(c, videoFile, startTime, endTime, outputWidth, fps, quality) ==
  /\ MayCall(c)
  /\ NoProgress
  /\ kind' = [kind EXCEPT ![c] = "convert"]
  /\ args' = [args EXCEPT ![c] = [videoFile |-> videoFile, startTime |-> startTime,
                                  endTime |-> endTime, outputWidth |-> outputWidth,
                                  fps |-> fps, quality |-> quality, callback |-> c]]
  /\ IF isLoaded
       THEN /\ progressCallback' = c
            /\ Goto(c, "fetch")
            /\ UNCHANGED <<ffmpeg, isLoaded, isLoading, bringUps, fs, joined, result>>
       ELSE IF LoadInFlight
         THEN StartWaiting(c) /\ progressCallback' = c
         ELSE StartBringUp(c, c)
  /\ UNCHANGED <<running, log, commands, thrown, page>>

\* The caller of load() resumes after load() resolved: a load() call is
\* settled, a convertToGif() call goes on to `await fetchFile(videoFile)`.
LoadResolved(c) ==
  IF kind[c] = "load"
    THEN Settle(c, Resolved(Undefined)) /\ Goto(c, "done")
    ELSE Goto(c, "fetch") /\ UNCHANGED <<result, app, awaiting>>

\* `await this.ffmpeg.load()` resolves.
BringUpSucceeds(c) ==
  /\ pc[c] = "loading"
  /\ NoProgress
  /\ UNCHANGED page
  /\ isLoaded' = TRUE
  /\ isLoading' = FALSE
  /\ bringUps' = [bringUps EXCEPT ![joined[c]].outcome = "loaded"]
  /\ LoadResolved(c)
  /\ UNCHANGED <<ffmpeg, progressCallback, fs, running, kind, args, log, commands, thrown, joined>>

\* `await this.ffmpeg.load()` rejects with an Error whose message is m.
BringUpFails(c, m) ==
  /\ pc[c] = "loading"
  /\ NoProgress
  /\ UNCHANGED page
  /\ isLoading' = isLoadingAfterFailure
  /\ bringUps' = [bringUps EXCEPT ![joined[c]].outcome = "failed",
                                  ![joined[c]].error = ErrorValue(m)]
  /\ Caught(c, "load", ErrorValue(m))
  /\ IF kind[c] = "load"
       THEN Settle(c, Rejected(LoadRejection(ErrorValue(m))))
       ELSE Settle(c, Rejected(LoadFailure(LoadRejection(ErrorValue(m)))))
  /\ Goto(c, "done")
  /\ UNCHANGED <<ffmpeg, isLoaded, progressCallback, fs, running, kind, args, log, commands, joined>>

\* A waiter that stops polling as soon as no bring-up is in flight.
PollUntilNotLoading == ~isLoading

\* if (this.isLoaded) { clearInterval(checkLoaded); resolve(); }
PollSatisfied == isLoaded

\* One tick of the waiter's setInterval(..., 100).
PollTick(c) ==
  /\ pc[c] = "waiting"
  /\ NoProgress
  /\ UNCHANGED page
  /\ IF PollSatisfied
       THEN LoadResolved(c)
       ELSE UNCHANGED <<pc, result, app, awaiting>>
  /\ UNCHANGED <<ffmpeg, isLoaded, isLoading, progressCallback, fs, running, kind, args,
                 log, commands, thrown, joined, bringUps>>


\* const duration = endTime - startTime;
duration(a) == a.endTime - a.startTime

\* if (duration <= 0) return Promise.reject("Invalid time range: ...")
DurationRejected(a) == duration(a) <= 0

\* The catch block of the conversion: one rejection, no further step.
FailConversion(c, at, error) ==
  /\ Caught(c, at, error)
  /\ Settle(c, Rejected(ConversionFailure(error)))
  /\ Goto(c, "done")

\* `await fetchFile(videoFile)` rejects: nothing has been staged.
FetchFileRejects(c, m) ==
  /\ pc[c] = "fetch"
  /\ FailConversion(c, "fetchFile", ErrorValue(m))
  /\ UNCHANGED <<fs, running, log, commands>>
  /\ NoProgress
  /\ UNCHANGED page
  /\ UNCHANGED <<ffmpeg, isLoaded, isLoading, progressCallback, kind, args, joined, bringUps>>

\* this.ffmpeg.FS("writeFile", inputFileName, ...) throws.
WriteFileThrows(c, m) ==
  /\ pc[c] = "fetch"
  /\ Logged(c, <<Op("writeFile", inputFileNameOf(args[c].videoFile))>>)
  /\ FailConversion(c, "writeFile", ErrorValue(m))
  /\ UNCHANGED <<fs, running>>
  /\ NoProgress
  /\ UNCHANGED page
  /\ UNCHANGED <<ffmpeg, isLoaded, isLoading, progressCallback, kind, args, joined, bringUps>>

\* The input is written, then the range is found invalid: the call rejects
\* by `return Promise.reject(...)`, which the catch block does not see.
RangeRejected(c) ==
  /\ pc[c] = "fetch"
  /\ DurationRejected(args[c])
  /\ fs' = [fs EXCEPT ![inputFileNameOf(args[c].videoFile)] = c]
  /\ Logged(c, <<Op("writeFile", inputFileNameOf(args[c].videoFile))>>)
  /\ Settle(c, Rejected(InvalidTimeRange))
  /\ Goto(c, "done")
  /\ UNCHANGED <<running, thrown>>
  /\ NoProgress
  /\ UNCHANGED page
  /\ UNCHANGED <<ffmpeg, isLoaded, isLoading, progressCallback, kind, args, joined, bringUps>>

\* The input is written and the palette-generation command is started.
\* The engine runs one command at a time: ffmpeg.run throws when busy.
PaletteStarted(c) ==
  /\ pc[c] = "fetch"
  /\ ~DurationRejected(args[c])
  /\ fs' = [fs EXCEPT ![inputFileNameOf(args[c].videoFile)] = c]
  /\ Logged(c, <<Op("writeFile", inputFileNameOf(args[c].videoFile)),
                 Op("palettegen", inputFileNameOf(args[c].videoFile))>>)
  /\ IF running = 0
       THEN /\ running' = c
            /\ Goto(c, "palettegen")
            /\ UNCHANGED <<result, app, awaiting, thrown>>
       ELSE /\ FailConversion(c, "palettegen", ErrorValue(BusyMessage))
            /\ UNCHANGED running
  /\ NoProgress
  /\ UNCHANGED page
  /\ UNCHANGED <<ffmpeg, isLoaded, isLoading, progressCallback, kind, args, joined, bringUps>>

\* The file system after the palette command ended, having produced its
\* output (which needs the input) or not.
AfterPalettegen(c, F, produced) ==
  IF produced /\ F[inputFileNameOf(args[c].videoFile)] # 0
    THEN [F EXCEPT ![paletteFileName] = c]
    ELSE F

\* The file system after the encode command ended, having produced its
\* output (which needs the input and the palette) or not.
AfterPaletteuse(c, F, produced) ==
  IF produced /\ F[inputFileNameOf(args[c].videoFile)] # 0 /\ F[paletteFileName] # 0
    THEN [F EXCEPT ![outputFileName] = c]
    ELSE F

\* The second command started without awaiting the first.
PaletteuseNotAwaited(c) ==
  <<Op("paletteuse", inputFileNameOf(args[c].videoFile)),
    Op("palettegen:resolved", inputFileNameOf(args[c].videoFile))>>

\* What the call does when the first `await this.ffmpeg.run(...)` resolves:
\* only then is the palette-application command started.
OnPalettegenResolved(c) ==
  <<Op("palettegen:resolved", inputFileNameOf(args[c].videoFile)),
    Op("paletteuse", inputFileNameOf(args[c].videoFile))>>

\* The first `await this.ffmpeg.run(...)` resolves and the second command
\* is started (the engine has just become idle).
PalettegenResolves(c, produced) ==
  /\ pc[c] = "palettegen"
  /\ NoProgress
  /\ UNCHANGED page
  /\ running = c
  /\ fs' = AfterPalettegen(c, fs, produced)
  /\ Logged(c, OnPalettegenResolved(c))
  /\ Goto(c, "paletteuse")
  /\ UNCHANGED <<ffmpeg, isLoaded, isLoading, progressCallback, running, kind, args,
                 result, app, awaiting, thrown, joined, bringUps>>

\* The first `await this.ffmpeg.run(...)` rejects (the command left no output).
PalettegenRejects(c, m) ==
  /\ pc[c] = "palettegen"
  /\ NoProgress
  /\ UNCHANGED page
  /\ running = c
  /\ running' = 0
  /\ FailConversion(c, "palettegen", ErrorValue(m))
  /\ UNCHANGED <<ffmpeg, isLoaded, isLoading, progressCallback, fs, kind, args, log, commands, joined,
                 bringUps>>

\* this.ffmpeg.FS("unlink", name) for each of names in turn, until one throws:
\* the file system left, how many were attempted, and whether all succeeded.
RECURSIVE Unlinks(_, _)
Unlinks(F, names) ==
  IF names = << >> THEN [fs |-> F, tried |-> 0, ok |-> TRUE]
  ELSE IF F[Head(names)] = 0 THEN [fs |-> F, tried |-> 1, ok |-> FALSE]
  ELSE LET r == Unlinks([F EXCEPT ![Head(names)] = 0], Tail(names))
       IN  [r EXCEPT !.tried = @ + 1]

\* The files unlinked after the output was read, in the order of the code.
CleanupOrder(c) == <<inputFileNameOf(args[c].videoFile), paletteFileName, outputFileName>>

\* The synchronous tail of convertToGif on file system F: read output.gif,
\* unlink the three files, return the Blob; any throw goes to the catch block.
ReadAndCleanup(c, F) ==
  LET read == <<Op("readFile", outputFileName)>>
      u == Unlinks(F, CleanupOrder(c))
      unlinked == [i \in 1..u.tried |-> Op("unlink", CleanupOrder(c)[i])]
  IN  IF F[outputFileName] = 0
        THEN [fs |-> F, ops |-> read, ok |-> FALSE, data |-> 0]
        ELSE [fs |-> u.fs, ops |-> read \o unlinked, ok |-> u.ok, data |-> F[outputFileName]]

\* The second `await this.ffmpeg.run(...)` resolves, and the call runs to
\* its end: read, cleanup, return.
PaletteuseResolves(c, produced) ==
  /\ pc[c] = "paletteuse"
  /\ NoProgress
  /\ UNCHANGED page
  /\ running = c
  /\ running' = 0
  /\ LET t == ReadAndCleanup(c, AfterPaletteuse(c, fs, produced))
     IN  /\ fs' = t.fs
         /\ Logged(c, <<Op("paletteuse:resolved", inputFileNameOf(args[c].videoFile))>> \o t.ops)
         /\ IF t.ok
              THEN /\ Settle(c, Resolved(BlobValue("image/gif", t.data)))
                   /\ Goto(c, "done")
                   /\ UNCHANGED thrown
              ELSE FailConversion(c, t.ops[Len(t.ops)].op, ErrorValue(FSErrorMessage))
  /\ UNCHANGED <<ffmpeg, isLoaded, isLoading, progressCallback, kind, args, joined,
                 bringUps>>

\* The second `await this.ffmpeg.run(...)` rejects (the command left no output).
PaletteuseRejects(c, m) ==
  /\ pc[c] = "paletteuse"
  /\ NoProgress
  /\ UNCHANGED page
  /\ running = c
  /\ running' = 0
  /\ FailConversion(c, "paletteuse", ErrorValue(m))
  /\ UNCHANGED <<ffmpeg, isLoaded, isLoading, progressCallback, fs, kind, args, log, commands, joined,
                 bringUps>>

\* ------------------------------------------------------------- progress
\* Ratios the engine reports, in thousandths.
Ratios == {0, 495, 1000}

\* Math.floor(progress.ratio * 100): the percentage cut off instead of rounded.
PercentTruncated(ratio) == ratio \div 10

\* Math.round(progress.ratio * 100) % 100: the percentage wrapping at 100.
PercentWrapped(ratio) == ((ratio + 5) \div 10) % 100

\* Math.round(progress.ratio * 100), for a ratio in thousandths.
Percent(ratio) == (ratio + 5) \div 10

\* The engine emits a progress event while the command of call `running`
\* executes; the handler installed by createFFmpeg forwards it.  The handler
\* reads the ratio only when a callback is installed; `delivered` records the
\* ratio it read and the number it handed to the callback.
Progress(ratio) ==
  /\ running # 0
  /\ IF progressCallback # null
       THEN delivered' = [emitter |-> running, receiver |-> progressCallback,
                          ratio |-> ratio, percent |-> Percent(ratio)]
       ELSE delivered' = [emitter |-> running, receiver |-> null, ratio |-> 0,
                          percent |-> 0]
  /\ UNCHANGED <<ffmpeg, isLoaded, isLoading, progressCallback, fs, running, kind, args,
                 pc, result, log, commands, thrown, joined, bringUps, ui>>

\* ------------------------------------------------------------ the system
\* A client of the singleton calls load() or convertToGif(), the latter with
\* the width, frame rate and quality App passes (the defaults).
Client ==
  \E c \in Calls :
    \/ \E cb \in {null, c} : LoadCall(c, cb)
    \/ \E f \in VideoFiles, r \in TimeRanges :
         /\ ConvertCall(c, f, r[1], r[2], DefaultOutputWidth, DefaultFps, DefaultQuality)
         /\ UNCHANGED <<app, awaiting>>

\* The steps that resume a call c that found the engine idle and was given a
\* non-empty range: the bring-up, fetchFile or the command it awaits completes.
Proceed(c) ==
  \/ BringUpSucceeds(c)
  \/ \E m \in LoadErrorMessages : BringUpFails(c, m)
  \/ \E m \in ErrorMessages : FetchFileRejects(c, m)
  \/ \E m \in ErrorMessages : WriteFileThrows(c, m)
  \/ PaletteStarted(c)
  \/ \E produced \in BOOLEAN : PalettegenResolves(c, produced)
  \/ \E m \in ErrorMessages : PalettegenRejects(c, m)
  \/ \E produced \in BOOLEAN : PaletteuseResolves(c, produced)
  \/ \E m \in ErrorMessages : PaletteuseRejects(c, m)

\* The steps that resume call c: the engine, fetchFile or the timer it awaits
\* completes.
Resume(c) ==
  \/ Proceed(c)
  \/ PollTick(c)
  \/ RangeRejected(c)

Next ==
  \/ Client
  \/ \E c \in Calls : Resume(c)
  \/ \E ratio \in Ratios : Progress(ratio)

Spec == Init /\ [][Next]_vars

\* Every operation a call awaits (bring-up, fetch, command, timer tick)
\* eventually completes; clients are not obliged to make further calls.
FairSpec == Spec /\ \A c \in Calls : WF_vars(Resume(c))

\* ------------------------------------------------- one call, any quality
\* The quality values convertToGif is called with: below, inside and above
\* the range 1..100.
Qualities == -20 .. 120

\* A client calls convertToGif(file, 2, 7, 480, 10, quality).
QualityClient ==
  \E q \in Qualities :
    /\ ConvertCall(1, <<"clip", "MP4">>, 2, 7, DefaultOutputWidth, DefaultFps, q)
    /\ UNCHANGED <<app, awaiting>>

QualityNext ==
  \/ QualityClient
  \/ Proceed(1)
  \/ \E ratio \in Ratios : Progress(ratio)

QualitySpec == Init /\ [][QualityNext]_vars

\* ------------------------------------------------------------------ App
\* The singleton's own state: App's handlers other than handleConvert leave
\* it alone.
singleton == <<ffmpeg, isLoaded, isLoading, progressCallback, fs, running, kind, args,
               pc, result, log, thrown, joined, bringUps, commands>>

\* A probe that only asks for crossOriginIsolated not to be false.
checkBrowserSupportLoose(w) ==
  /\ w.SharedArrayBuffer # "undefined"
  /\ w.WebAssembly = "object" /\ w.instantiate = "function"
  /\ w.crossOriginIsolated # "false"

\* static checkBrowserSupport(), on host w.
checkBrowserSupport(w) ==
  LET hasSharedArrayBuffer == w.SharedArrayBuffer # "undefined"
      hasWebAssembly == w.WebAssembly = "object" /\ w.instantiate = "function"
      isCrossOriginIsolated == w.crossOriginIsolated = "true"
  IN  hasSharedArrayBuffer /\ hasWebAssembly /\ isCrossOriginIsolated

\* A mount effect that does not store the probe's verdict.
SupportAssumed(w) == TRUE

\* const supported = ffmpegUtils.checkBrowserSupport(); setIsBrowserSupported(supported)
SupportStored(w) == checkBrowserSupport(w)

\* {videoFile && isBrowserSupported && (... <TimeRangeSelector/> ... <button/>)}
Rendered(a) == a.videoFile # NoFile /\ a.isBrowserSupported

\* <VideoUploader disabled={isConverting || !isBrowserSupported} />
UploaderDisabled(a) == a.isConverting \/ ~a.isBrowserSupported

\* <TimeRangeSelector disabled={isConverting} />
SelectorDisabled(a) == a.isConverting

\* The disabled attribute of the convert button.
\* A Convert button that stays enabled during a conversion.
ConvertDisabledUnlessBusy(a) ==
  \/ a.videoFile = NoFile
  \/ ~a.isBrowserSupported
  \/ a.timeRange.endTime <= a.timeRange.startTime

ConvertDisabled(a) ==
  \/ a.isConverting
  \/ a.videoFile = NoFile
  \/ ~a.isBrowserSupported
  \/ a.timeRange.endTime <= a.timeRange.startTime

\* The condition of the selector's second effect.
Notifies(s, videoDuration) ==
  s.startTime >= 0 /\ s.endTime > s.startTime /\ s.endTime <= videoDuration

\* React commits the state a handler left (a1, s1) after the committed state
\* (a0, s0): the selector mounts if it is rendered for the first time, the
\* effects whose dependencies changed run with the values of that render,
\* and the state they set is rendered in turn, until nothing changes.
Commit(a0, s0, a1, s1) ==
  LET mounts == ~Rendered(a0) /\ Rendered(a1)
      r1 == IF mounts THEN SelectorInitial(a1.videoDuration) ELSE s1
      durationChanged == mounts \/ a1.videoDuration # a0.videoDuration
      timesChanged == mounts \/ r1 # s0
      \* useEffect(..., [videoDuration])
      r2 == IF durationChanged /\ a1.videoDuration > 0
              THEN [r1 EXCEPT !.endTime = a1.videoDuration]
              ELSE r1
      \* useEffect(..., [startTime, endTime, videoDuration, onTimeRangeChange])
      a2 == IF (durationChanged \/ timesChanged) /\ Notifies(r1, a1.videoDuration)
              THEN [a1 EXCEPT !.timeRange = [startTime |-> r1.startTime,
                                             endTime |-> r1.endTime]]
              ELSE a1
      \* the render after setEndTime: the second effect runs again
      a3 == IF r2 # r1 /\ Notifies(r2, a2.videoDuration)
              THEN [a2 EXCEPT !.timeRange = [startTime |-> r2.startTime,
                                             endTime |-> r2.endTime]]
              ELSE a2
  IN  IF Rendered(a1)
        THEN [app |-> a3, selector |-> r2]
        ELSE [app |-> a1, selector |-> s1]

\* The effect App runs once after its first render.
Mount ==
  /\ ~mountEffectRan
  /\ mountEffectRan' = TRUE
  /\ app' = [app EXCEPT !.isBrowserSupported = SupportStored(window),
                        !.error = IF ~checkBrowserSupport(window)
                                    THEN UnsupportedMessage ELSE @]
  /\ NoProgress
  /\ UNCHANGED <<singleton, player, videoRef, timeField, window, selector, uploader, videoElements, awaiting>>

supportedFormats == {<<"video", "mp4">>, <<"video", "webm">>}

\* validateFile(file) with `file.size >= maxSize` as its size check.
validateFileBelowMaxSize(file) ==
  IF file.type[1] # "video" THEN "Please upload a video file (MP4 or WebM)"
  ELSE IF file.type \notin supportedFormats THEN "Only MP4 and WebM formats are supported"
  ELSE IF file.size >= maxSize THEN "File size must be less than 100MB"
  ELSE ""

\* validateFile(file): the error it sets ("" when the file is accepted).
validateFile(file) ==
  IF file.type[1] # "video" THEN "Please upload a video file (MP4 or WebM)"
  ELSE IF file.type \notin supportedFormats THEN "Only MP4 and WebM formats are supported"
  ELSE IF file.size > maxSize THEN "File size must be less than 100MB"
  ELSE ""

\* handleVideoSelect(file) on App state a: the state it sets, and whether it
\* created a video element to read the metadata.
handleVideoSelect(a, file) ==
  IF ~a.isBrowserSupported
    THEN [app |-> [a EXCEPT !.error = CannotProcessMessage], element |-> FALSE]
    ELSE [app |-> [a EXCEPT !.videoFile = file, !.gifUrl = null, !.error = "",
                            !.timeRange = [startTime |-> 0, endTime |-> 0]],
          element |-> TRUE]

\* handleFile(file): validate, then hand the file to App.
handleFile(file) ==
  LET selected == handleVideoSelect(app, file)
      committed == Commit(app, selector, selected.app, selector)
  IN  /\ uploader' = [uploader EXCEPT !.error = validateFile(file)]
      /\ IF validateFile(file) = ""
           THEN /\ app' = committed.app
                /\ selector' = committed.selector
                /\ videoElements' = IF selected.element
                                      THEN videoElements \cup {file}
                                      ELSE videoElements
           ELSE UNCHANGED <<app, selector, videoElements>>

\* handleDrop: a file is dropped on the upload area.  (A file whose
\* metadata is still awaited is not offered again.)
Drop(file) ==
  /\ mountEffectRan
  /\ file \notin videoElements
  /\ IF UploaderDisabled(app)
       THEN UNCHANGED <<app, selector, uploader, videoElements>>
       ELSE handleFile(file)
  /\ NoProgress
  /\ UNCHANGED <<singleton, player, videoRef, timeField, window, mountEffectRan, awaiting>>

\* handleFileInput: a file is picked with the file input, which the browser
\* allows only while the input is not disabled.
FileInput(file) ==
  /\ mountEffectRan
  /\ ~UploaderDisabled(app)
  /\ file \notin videoElements
  /\ handleFile(file)
  /\ NoProgress
  /\ UNCHANGED <<singleton, player, videoRef, timeField, window, mountEffectRan, awaiting>>

\* videoElement.onloadedmetadata of the element created for file.
MetadataLoaded(file) ==
  /\ file \in videoElements
  /\ LET loaded == [app EXCEPT !.videoDuration = file.duration,
                               !.timeRange = [startTime |-> 0,
                                              endTime |-> Min(10, file.duration)]]
         committed == Commit(app, selector, loaded, selector)
     IN  /\ app' = committed.app
         /\ selector' = committed.selector
  /\ videoElements' = videoElements \ {file}
  /\ NoProgress
  /\ UNCHANGED <<singleton, player, videoRef, timeField, window, mountEffectRan, uploader, awaiting>>

\* videoElement.onerror of the element created for file.
MetadataError(file) ==
  /\ file \in videoElements
  /\ app' = [app EXCEPT !.error = MetadataErrorMessage]
  /\ videoElements' = videoElements \ {file}
  /\ NoProgress
  /\ UNCHANGED <<singleton, player, videoRef, timeField, window, mountEffectRan, selector, uploader, awaiting>>

\* if (newStartTime < endTime) setStartTime(newStartTime), and the commit.
SetStartTime(newStartTime) ==
  LET edited == IF newStartTime < selector.endTime
                  THEN [selector EXCEPT !.startTime = newStartTime]
                  ELSE selector
      committed == Commit(app, selector, app, edited)
  IN  app' = committed.app /\ selector' = committed.selector

\* if (newEndTime > startTime && newEndTime <= videoDuration) setEndTime(newEndTime)
SetEndTime(newEndTime) ==
  LET edited == IF newEndTime > selector.startTime /\ newEndTime <= app.videoDuration
                  THEN [selector EXCEPT !.endTime = newEndTime]
                  ELSE selector
      committed == Commit(app, selector, app, edited)
  IN  app' = committed.app /\ selector' = committed.selector

\* The text inputs take any time while the selector is enabled.
TextEditable == mountEffectRan /\ Rendered(app) /\ ~SelectorDisabled(app)

\* The sliders, min 0 and max videoDuration, are disabled without a duration.
SliderEditable(value) ==
  /\ mountEffectRan /\ Rendered(app)
  /\ ~(SelectorDisabled(app) \/ app.videoDuration <= 0)
  /\ value >= 0 /\ value <= app.videoDuration

handleStartTimeChange(value) ==
  /\ TextEditable
  /\ SetStartTime(value)
  /\ NoProgress
  /\ UNCHANGED <<singleton, player, videoRef, timeField, window, mountEffectRan, uploader, videoElements, awaiting>>

handleEndTimeChange(value) ==
  /\ TextEditable
  /\ SetEndTime(value)
  /\ NoProgress
  /\ UNCHANGED <<singleton, player, videoRef, timeField, window, mountEffectRan, uploader, videoElements, awaiting>>

handleStartSliderChange(value) ==
  /\ SliderEditable(value)
  /\ SetStartTime(value)
  /\ NoProgress
  /\ UNCHANGED <<singleton, player, videoRef, timeField, window, mountEffectRan, uploader, videoElements, awaiting>>

handleEndSliderChange(value) ==
  /\ SliderEditable(value)
  /\ SetEndTime(value)
  /\ NoProgress
  /\ UNCHANGED <<singleton, player, videoRef, timeField, window, mountEffectRan, uploader, videoElements, awaiting>>

\* handleConvert up to its await, as call c of the singleton.
handleConvert(c) ==
  IF ~app.isBrowserSupported \/ app.videoFile = NoFile
     \/ app.timeRange.endTime <= app.timeRange.startTime
    THEN /\ app' = [app EXCEPT !.error =
                      IF ~app.isBrowserSupported THEN CannotConvertMessage
                      ELSE IF app.videoFile = NoFile THEN SelectVideoMessage
                      ELSE EndAfterStartMessage]
         /\ NoProgress
         /\ UNCHANGED <<singleton, page, awaiting>>
    ELSE /\ ConvertCall(c, app.videoFile.name, app.timeRange.startTime,
                        app.timeRange.endTime, DefaultOutputWidth, DefaultFps,
                        DefaultQuality)
         /\ app' = [app EXCEPT !.isConverting = TRUE, !.error = "", !.gifUrl = null]
         /\ awaiting' = awaiting \cup {c}

\* A click on the convert button, which the browser delivers only while the
\* button is rendered and not disabled.
ConvertClick ==
  /\ mountEffectRan
  /\ Rendered(app)
  /\ ~ConvertDisabled(app)
  /\ \E c \in 1..MaxConversions : MayCall(c) /\ handleConvert(c)

\* The steps of the page: its handlers, and the engine steps of its calls.
AppNext ==
  \/ Mount
  \/ \E file \in UserFiles : Drop(file)
  \/ \E file \in UserFiles : FileInput(file)
  \/ \E file \in UserFiles : MetadataLoaded(file)
  \/ \E file \in UserFiles : MetadataError(file)
  \/ \E value \in EditTimes : handleStartTimeChange(value)
  \/ \E value \in EditTimes : handleEndTimeChange(value)
  \/ \E value \in EditTimes : handleStartSliderChange(value)
  \/ \E value \in EditTimes : handleEndSliderChange(value)
  \/ ConvertClick
  \/ \E c \in 1..MaxConversions : Proceed(c)
  \/ \E ratio \in Ratios : Progress(ratio)

\* The page is loaded on any host; the singleton is used by App alone.
AppInit == EngineInit /\ \E w \in Windows : PageInit(w)

AppSpec == AppInit /\ [][AppNext]_vars

\* Every operation a conversion awaits eventually completes; the user and
\* the metadata loads are not obliged to do anything.
FairAppSpec == AppSpec /\ \A c \in 1..MaxConversions : WF_vars(Proceed(c))

\* --------------------------------------------------- repeated conversions
\* A click on the Convert button, any number of times in the life of the page.
ConvertClickAgain ==
  /\ mountEffectRan
  /\ Rendered(app)
  /\ ~ConvertDisabled(app)
  /\ \E c \in Calls : MayCall(c) /\ handleConvert(c)

\* The page on a supporting host whose user selects videos and converts
\* again and again, leaving the range as the metadata set it.
RepeatNext ==
  \/ Mount
  \/ \E file \in UserFiles : FileInput(file)
  \/ \E file \in UserFiles : MetadataLoaded(file)
  \/ ConvertClickAgain
  \/ \E c \in Calls : Proceed(c)

RepeatSpec == Init /\ [][RepeatNext]_vars

\* ------------------------------------------------------ the video player
\* The positions of the volume slider: min 0, max 1, step 0.1, in tenths.
Volumes == 0 .. 10

\* The player's controls are rendered with the video and disabled while a
\* conversion runs.
PlayerEnabled == mountEffectRan /\ Rendered(app) /\ ~app.isConverting

\* handleVolumeChange: the volume slider is moved to newVolume.
handleVolumeChange(newVolume) ==
  /\ PlayerEnabled
  /\ player' = [volume |-> newVolume, isMuted |-> (newVolume = 0)]
  /\ videoRef' = [videoRef EXCEPT !.volume = newVolume]
  /\ NoProgress
  /\ UNCHANGED <<singleton, timeField, window, mountEffectRan, app, selector, uploader, videoElements,
                 awaiting>>

\* toggleMute: the mute button is clicked.
toggleMute ==
  LET newMutedState == ~player.isMuted
      newVolume == IF newMutedState THEN 0 ELSE 10
  IN  /\ PlayerEnabled
      /\ videoRef' = [volume |-> newVolume, muted |-> newMutedState]
      /\ player' = [volume |-> newVolume, isMuted |-> newMutedState]
      /\ NoProgress
      /\ UNCHANGED <<singleton, timeField, window, mountEffectRan, app, selector, uploader,
                     videoElements, awaiting>>

\* The page on a supporting host whose user selects a video and plays with
\* the sound controls.
PlayerNext ==
  \/ Mount
  \/ \E file \in UserFiles : FileInput(file)
  \/ \E file \in UserFiles : MetadataLoaded(file)
  \/ \E newVolume \in Volumes : handleVolumeChange(newVolume)
  \/ toggleMute

PlayerSpec == Init /\ [][PlayerNext]_vars

\* ------------------------------------------------- the time text fields
\* JavaScript Numbers (IEEE-754 binary64), for the non-negative values the
\* time fields compute.  A Number x is written as the integer x * 2^80 in
\* seven digits of 16 bits, least significant first: five digits of
\* fraction, two of integer part.  An operation computes the exact result
\* and rounds it to Precision significant bits, ties to even.
Precision == 53
Digit == 65536

\* The Number of a non-negative integer below 2^31.
NumberOf(n) == <<0, 0, 0, 0, 0, n % Digit, n \div Digit>>

\* Math.floor(x)
FloorOf(x) == x[6] + Digit * x[7]

\* x % n for a positive integer n: exact in binary64.
NumberRemainder(x, n) ==
  <<x[1], x[2], x[3], x[4], x[5], (FloorOf(x) % n) % Digit, (FloorOf(x) % n) \div Digit>>

RECURSIVE PlusFrom(_, _, _, _)
PlusFrom(x, y, i, carry) ==
  IF i > 7 THEN << >>
  ELSE <<(x[i] + y[i] + carry) % Digit>>
       \o PlusFrom(x, y, i + 1, (x[i] + y[i] + carry) \div Digit)

\* The exact sum of two Numbers.
ExactPlus(x, y) == PlusFrom(x, y, 1, 0)

RECURSIVE TimesFrom(_, _, _, _)
TimesFrom(x, m, i, carry) ==
  IF i > 7 THEN << >>
  ELSE <<(x[i] * m + carry) % Digit>>
       \o TimesFrom(x, m, i + 1, (x[i] * m + carry) \div Digit)

\* The exact product of a Number and a positive integer of at most 1000.
ExactTimes(x, m) == TimesFrom(x, m, 1, 0)

RECURSIVE OverFrom(_, _, _, _)
OverFrom(x, d, i, rest) ==
  IF i = 0 THEN [quotient |-> << >>, remainder |-> rest]
  ELSE LET lower == OverFrom(x, d, i - 1, (rest * Digit + x[i]) % d)
       IN  [quotient |-> Append(lower.quotient, (rest * Digit + x[i]) \div d),
            remainder |-> lower.remainder]

\* The quotient of a Number by a positive integer of at most 1000, cut off
\* at 2^-80, and what is left.
ExactOver(x, d) == OverFrom(x, d, 7, 0)

\* Bit i of a Number, bit 1 being the least significant.
Bit(x, i) == (x[((i - 1) \div 16) + 1] \div 2^((i - 1) % 16)) % 2

\* The position of the highest set bit (0 for zero).
Top(x) ==
  LET set == {i \in 1..112 : Bit(x, i) = 1}
  IN  IF set = {} THEN 0 ELSE CHOOSE i \in set : \A j \in set : j <= i

\* x without its lowest `dropped` bits.
RECURSIVE KeptFrom(_, _, _)
KeptFrom(x, dropped, i) ==
  IF i > 7 THEN << >>
  ELSE <<IF 16 * i <= dropped THEN 0
         ELSE IF 16 * (i - 1) >= dropped THEN x[i]
         ELSE (x[i] \div 2^(dropped - 16 * (i - 1))) * 2^(dropped - 16 * (i - 1))>>
       \o KeptFrom(x, dropped, i + 1)

\* 2^(i - 1) * 2^-80: bit i alone.
RECURSIVE UnitFrom(_, _)
UnitFrom(bit, i) ==
  IF i > 7 THEN << >>
  ELSE <<IF (bit - 1) \div 16 = i - 1 THEN 2^((bit - 1) % 16) ELSE 0>> \o UnitFrom(bit, i + 1)

\* Round to nearest, ties to even, keeping Precision significant bits;
\* inexact says that x itself was cut off below its last bit.
RoundToNumber(x, inexact) ==
  LET dropped == Top(x) - Precision
  IN  IF dropped <= 0 THEN x
      ELSE IF /\ Bit(x, dropped) = 1
              /\ \/ inexact
                 \/ \E i \in 1..(dropped - 1) : Bit(x, i) = 1
                 \/ Bit(x, dropped + 1) = 1
        THEN ExactPlus(KeptFrom(x, dropped, 1), UnitFrom(dropped + 1, 1))
        ELSE KeptFrom(x, dropped, 1)

\* x + y, x * m and x / d as JavaScript computes them.
NumberPlus(x, y) == RoundToNumber(ExactPlus(x, y), FALSE)
NumberTimes(x, m) == RoundToNumber(ExactTimes(x, m), FALSE)
NumberOver(x, d) ==
  RoundToNumber(ExactOver(x, d).quotient, ExactOver(x, d).remainder # 0)

\* The Number that a time of millis milliseconds is in seconds.
Seconds(millis) == NumberOver(NumberOf(millis), 1000)

\* Strings are sequences of characters.
DigitCharacters == <<"0", "1", "2", "3", "4", "5", "6", "7", "8", "9">>
IsDigit(ch) == \E d \in 1..10 : DigitCharacters[d] = ch
DigitValue(ch) == (CHOOSE d \in 1..10 : DigitCharacters[d] = ch) - 1

\* n.toString() for a non-negative integer n
RECURSIVE NumberToString(_)
NumberToString(n) ==
  IF n < 10 THEN <<DigitCharacters[n + 1]>>
  ELSE Append(NumberToString(n \div 10), DigitCharacters[(n % 10) + 1])

\* string.padStart(targetLength, padString) for a one-character padString
RECURSIVE padStart(_, _, _)
padStart(string, targetLength, padString) ==
  IF Len(string) >= targetLength THEN string
  ELSE padStart(<<padString>> \o string, targetLength, padString)

RECURSIVE SplitFrom(_, _, _)
SplitFrom(string, separator, part) ==
  IF string = << >> THEN <<part>>
  ELSE IF Head(string) = separator
    THEN <<part>> \o SplitFrom(Tail(string), separator, << >>)
    ELSE SplitFrom(Tail(string), separator, Append(part, Head(string)))

\* string.split(separator) for a one-character separator
split(string, separator) == SplitFrom(string, separator, << >>)

\* string.includes(ch)
includes(string, ch) == \E i \in 1..Len(string) : string[i] = ch

RECURSIVE ParseDigits(_, _)
ParseDigits(string, value) ==
  IF string = << >> \/ ~IsDigit(Head(string)) THEN value
  ELSE ParseDigits(Tail(string), 10 * value + DigitValue(Head(string)))

\* parseInt(string, 10) for a string that starts with a digit: the value of
\* its leading digits.
parseInt(string) == ParseDigits(string, 0)

\* formatTime(timeInSeconds, includeMilliseconds) for a Number; the
\* milliseconds are floored without rounding.
formatTime(timeInSeconds, includeMilliseconds) ==
  LET minutes == FloorOf(NumberOver(timeInSeconds, 60))
      seconds == FloorOf(NumberRemainder(timeInSeconds, 60))
      milliseconds == FloorOf(NumberTimes(NumberRemainder(timeInSeconds, 1), 1000))
      mmss == padStart(NumberToString(minutes), 2, "0") \o <<":">>
              \o padStart(NumberToString(seconds), 2, "0")
  IN  IF includeMilliseconds
        THEN mmss \o <<".">> \o padStart(NumberToString(milliseconds), 3, "0")
        ELSE mmss

\* parseTimeString(timeString)
parseTimeString(timeString) ==
  IF timeString = << >> THEN NumberOf(0)
  ELSE LET parts == split(timeString, ":")
       IN  IF Len(parts) # 2 THEN NumberOf(0)
           ELSE LET minutes == parseInt(parts[1])
                    secondParts == split(parts[2], ".")
                    seconds ==
                      IF includes(parts[2], ".")
                        THEN NumberPlus(NumberOf(parseInt(secondParts[1])),
                                        NumberOver(NumberOf(parseInt(secondParts[2])), 1000))
                        ELSE NumberOf(parseInt(parts[2]))
                IN  NumberPlus(NumberTimes(NumberOf(minutes), 60), seconds)

\* The times a field is given to show, in milliseconds: minutes 0, 1 and
\* 100, seconds and milliseconds at and between their ends.
TimesInMillis ==
  {m * 60000 + sec * 1000 + ms :
     m \in {0, 1, 100}, sec \in {0, 1, 5, 59}, ms \in {0, 1, 5, 50, 500, 999}}

\* The render: the field shows value={formatTime(startTime, true)}.
ShowTime(millis) ==
  /\ timeField.stage = "empty"
  /\ timeField' = [stage |-> "shown", millis |-> millis,
                   text |-> formatTime(Seconds(millis), TRUE), read |-> << >>]
  /\ NoProgress
  /\ UNCHANGED <<singleton, window, mountEffectRan, app, selector, uploader, videoElements,
                 player, videoRef, awaiting>>

\* The change handler reads the text back: parseTimeString(e.target.value).
ReadTime ==
  /\ timeField.stage = "shown"
  /\ timeField' = [timeField EXCEPT !.stage = "read",
                                    !.read = parseTimeString(timeField.text)]
  /\ NoProgress
  /\ UNCHANGED <<singleton, window, mountEffectRan, app, selector, uploader, videoElements,
                 player, videoRef, awaiting>>

\* The texts a user types into a time field: minutes, seconds, and one to
\* three digits after the dot.
TypedTexts ==
  {minutes \o <<":">> \o sec \o <<".">> \o fraction :
     minutes \in {<<"0", "0">>, <<"0", "1">>},
     sec \in {<<"0", "0">>, <<"0", "5">>, <<"3", "0">>, <<"5", "9">>},
     fraction \in UNION {[1..n -> {"0", "5"}] : n \in 1..3}}

\* The user edits the field: the change handler parses e.target.value.
TypeTime(text) ==
  /\ timeField' = [stage |-> "typed", millis |-> 0, text |-> text,
                   read |-> parseTimeString(text)]
  /\ NoProgress
  /\ UNCHANGED <<singleton, window, mountEffectRan, app, selector, uploader, videoElements,
                 player, videoRef, awaiting>>

\* A time is formatted into the field and the text is parsed back, or the
\* user types a text of their own.
RoundTripNext ==
  \/ \E millis \in TimesInMillis : ShowTime(millis)
  \/ ReadTime
  \/ \E text \in TypedTexts : TypeTime(text)

RoundTripSpec == Init /\ [][RoundTripNext]_vars

\* ------------------------------------------------------- the upload area
\* The files offered to the upload area: the two videos above, a video of an
\* unsupported format, a file that is no video, and an MP4 one byte too big.
OfferedFiles ==
  UserFiles \cup
  {[name |-> <<"clip", "avi">>, type |-> <<"video", "avi">>, size |-> 1, duration |-> 3],
   [name |-> <<"anim", "gif">>, type |-> <<"image", "gif">>, size |-> 1, duration |-> 0],
   [name |-> <<"long", "mp4">>, type |-> <<"video", "mp4">>, size |-> maxSize + 1,
    duration |-> 30]}

\* The page with any file offered to the upload area, conversions started
\* with the range the metadata set.
UploaderNext ==
  \/ Mount
  \/ \E file \in OfferedFiles : Drop(file)
  \/ \E file \in OfferedFiles : FileInput(file)
  \/ \E file \in UserFiles : MetadataLoaded(file)
  \/ \E file \in UserFiles : MetadataError(file)
  \/ ConvertClick
  \/ \E c \in 1..MaxConversions : Proceed(c)

UploaderSpec == AppInit /\ [][UploaderNext]_vars


\* ================================================================ claims
Settled(c) == result[c].state # "pending"
InvalidRange(c) == args[c].endTime <= args[c].startTime
StartedBringUp(c) == \E i \in 1..Len(bringUps) : bringUps[i].by = c
InFlight == {i \in 1..Len(bringUps) : bringUps[i].outcome = "inflight"}
IsPrefix(p, q) == Len(p) <= Len(q) /\ p = SubSeq(q, 1, Len(p))

\* C1: a convertToGif call with endTime <= startTime rejects with the
\* invalid-time-range error and never touches the engine: it starts no
\* bring-up, writes no file and runs no command.
C1_InvalidRangeNeverTouchesEngine ==
  \A c \in Calls :
    (kind[c] = "convert" /\ InvalidRange(c)) =>
      /\ ~StartedBringUp(c)
      /\ log[c] = << >>
      /\ Settled(c) => result[c] = Rejected(InvalidTimeRange)

\* C2: once a convertToGif call has settled, no file it staged (input,
\* palette.png, output.gif) remains in the virtual file system.
C2_CleanupInvariant ==
  \A c \in Calls :
    (kind[c] = "convert" /\ Settled(c)) => \A f \in FileNames : fs[f] # c

\* C3: at most one engine bring-up is in flight at any time, and a caller
\* that found isLoading true (and so waits) has started none.
C3_AtMostOneBringUp ==
  /\ Cardinality(InFlight) <= 1
  /\ \A c \in Calls : pc[c] = "waiting" => ~StartedBringUp(c)

\* C3 witness: one call is bringing the engine up while another, having
\* arrived meanwhile, wait.
C3_Witness ==
  \E c, d \in Calls :
    /\ c # d
    /\ pc[c] = "loading"
    /\ pc[d] = "waiting"
    /\ isLoading

\* C4: every load() caller that started or joined a bring-up eventually
\* settles, with the outcome of that bring-up: resolved if it succeeded,
\* rejected with its error if it failed.
C4_AllCallersSettle ==
  /\ \A c \in Calls :
       (kind[c] = "load" /\ pc[c] \in {"loading", "waiting"}) ~> Settled(c)
  /\ [](\A c \in Calls :
          (kind[c] = "load" /\ Settled(c) /\ joined[c] # 0) =>
             \/ bringUps[joined[c]].outcome = "loaded" /\ result[c].state = "resolved"
             \/ /\ bringUps[joined[c]].outcome = "failed"
                /\ result[c] = Rejected(bringUps[joined[c]].error))

\* C5: between the input write and the last unlink of one convertToGif
\* call, no other call performs a file-system operation or runs a command.
C5_OneJobOwnsFileSystem ==
  [][\A c, d \in Calls :
       (c # d /\ pc[c] \in {"palettegen", "paletteuse"}) => log'[d] = log[d]]_vars

\* C6: a progress event emitted while a call's command executes is handed
\* to the callback that was passed to that call.
C6_PerJobProgress ==
  delivered.emitter # 0 => delivered.receiver = args[delivered.emitter].callback

\* The engine operations of a complete convertToGif call, in order.
PassOrder(c) ==
  LET input == inputFileNameOf(args[c].videoFile)
  IN  <<Op("writeFile", input), Op("palettegen", input), Op("palettegen:resolved", input),
        Op("paletteuse", input), Op("paletteuse:resolved", input),
        Op("readFile", outputFileName), Op("unlink", input),
        Op("unlink", paletteFileName), Op("unlink", outputFileName)>>

\* C7: the engine operations of one convertToGif call occur in the order
\* write input, palette generation, palette application, read output,
\* unlink input, unlink palette, unlink output, each begun after the
\* previous one completed.
C7_PassOrdering ==
  \A c \in Calls : kind[c] = "convert" => IsPrefix(log[c], PassOrder(c))

\* C7 witness: a call has gone through all the operations and resolved.
C7_Witness ==
  \E c \in Calls :
    kind[c] = "convert" /\ result[c].state = "resolved" /\ log[c] = PassOrder(c)

\* C8: when the bring-up fails, load() rejects with the engine's error and
\* the engine is left neither ready nor loading; the next load() or
\* convertToGif() call then starts a fresh bring-up, whose success makes
\* the engine ready.
C8_FailureAndRetry ==
  [][\A c \in Calls :
       /\ (pc[c] = "loading" /\ bringUps'[joined[c]].outcome = "failed") =>
            /\ ~isLoaded' /\ ~isLoading'
            /\ kind[c] = "load" => result'[c] = Rejected(bringUps'[joined[c]].error)
       /\ (/\ kind[c] = "none" /\ kind'[c] # "none"
           /\ bringUps # << >> /\ bringUps[Len(bringUps)].outcome = "failed") =>
            /\ bringUps' = Append(bringUps, [by |-> c, outcome |-> "inflight",
                                             error |-> Undefined])
            /\ isLoading' /\ ffmpeg' = Len(bringUps')
       /\ (pc[c] = "loading" /\ bringUps'[joined[c]].outcome = "loaded") =>
            isLoaded' /\ ~isLoading']_vars

\* C8 witness: a bring-up failed and a later one, started by another call,
\* made the engine ready.
C8_Witness ==
  \E i, j \in 1..Len(bringUps) :
    /\ i < j
    /\ bringUps[i].outcome = "failed"
    /\ bringUps[j].outcome = "loaded"
    /\ result[bringUps[i].by].state = "rejected"
    /\ isLoaded

\* C9: once isLoaded is true it stays true, the engine instance is never
\* replaced and no further bring-up is started.
C9_ReadyIsTerminal ==
  [][isLoaded => (isLoaded' /\ ffmpeg' = ffmpeg /\ bringUps' = bringUps)]_vars

\* C9 witness: load() has been called on a ready engine, and has resolved
\* without joining any bring-up.
C9_Witness ==
  /\ isLoaded
  /\ \E c \in Calls : kind[c] = "load" /\ joined[c] = 0 /\ result[c].state = "resolved"

\* The operations of the conversion's try block that can throw.
ConversionSteps == {"fetchFile", "writeFile", "palettegen", "paletteuse", "readFile", "unlink"}

\* C10: when the input write, a command or the read throws, the call
\* rejects once, with one conversion-failure value carrying the message of
\* the error thrown, and neither the failed operation nor a later step is
\* attempted again.
C10_UnifiedFailureNoRetry ==
  /\ [](\A c \in Calls :
          (thrown[c] # << >> /\ thrown[c][1].at \in ConversionSteps) =>
             /\ Len(thrown[c]) = 1
             /\ result[c] = Rejected(StringValue(<<"Failed to convert video: ",
                                                   thrown[c][1].error.text[1]>>))
             /\ thrown[c][1].at # "fetchFile" => log[c][Len(log[c])].op = thrown[c][1].at
             /\ \A i, j \in 1..Len(log[c]) : i # j => log[c][i] # log[c][j])
  /\ [][\A c \in Calls :
          Settled(c) => (result'[c] = result[c] /\ log'[c] = log[c]
                         /\ thrown'[c] = thrown[c])]_vars

\* C10 witness: the second command threw and the call stands rejected.
C10_Witness ==
  \E c \in Calls :
    /\ thrown[c] # << >>
    /\ thrown[c][1].at = "paletteuse"
    /\ thrown[c][1].error.text = <<"E3">>
    /\ result[c].state = "rejected"


\* C11: when the initialization that convertToGif needed fails, the call
\* rejects with the very error load() rejected with, not a wrapped value,
\* having staged no file and run no command.
C11_SameLoadError ==
  \A c \in Calls :
    (kind[c] = "convert" /\ thrown[c] # << >> /\ thrown[c][1].at = "load") =>
      /\ result[c] = Rejected(thrown[c][1].error)
      /\ log[c] = << >>

\* C20: load(cb) on a ready engine resolves at once and leaves isLoaded,
\* isLoading, the engine instance and the registered progress callback as
\* they were, whatever cb is.
C20_LoadWhenReadyIsNoOp ==
  [][\A c \in Calls :
       (isLoaded /\ kind[c] = "none" /\ kind'[c] = "load") =>
          /\ result'[c] = Resolved(Undefined)
          /\ isLoaded' = isLoaded
          /\ isLoading' = isLoading
          /\ ffmpeg' = ffmpeg
          /\ progressCallback' = progressCallback]_vars

\* C20 witness: load() was called with a callback on a ready engine and
\* has resolved; the callback registered is still another one.
C20_Witness ==
  /\ isLoaded
  /\ \E c \in Calls :
       /\ kind[c] = "load"
       /\ joined[c] = 0
       /\ args[c].callback = c
       /\ result[c] = Resolved(Undefined)
       /\ progressCallback # c

\* The quality clamped into 1..100.
ClampedQuality(q) == IF q < 1 THEN 1 ELSE IF q > 100 THEN 100 ELSE q

\* C16: for every integer quality q the stats_mode of the first command is
\* max(1, round((100 - c) / 20)) with c = q clamped into 1..100, an integer
\* in 1..5 (1 for q = 75, 5 for q = 1, 1 for q = 100), and q never makes
\* the call reject: it rejects only when an operation threw.
C16_QualityMapping ==
  \A c \in Calls :
    kind[c] = "convert" =>
      /\ pc[c] \in {"palettegen", "paletteuse"} => commands[c] # << >>
      /\ result[c].state = "rejected" => thrown[c] # << >>
      /\ commands[c] # << >> =>
           LET used == commands[c][1][8][6]
               x == 100 - ClampedQuality(args[c].quality)
           IN  /\ \E r \in 0..5 :
                    /\ 20 * r - 10 <= x
                    /\ x < 20 * r + 10
                    /\ used = ToString(IF r < 1 THEN 1 ELSE r)
               /\ used \in {"1", "2", "3", "4", "5"}
               /\ args[c].quality = 75 => used = "1"
               /\ args[c].quality = 1 => used = "5"
               /\ args[c].quality = 100 => used = "1"

\* C16 witness: a call made with a quality below 1 used stats_mode 5 and
\* resolved.
C16_Witness ==
  \E c \in Calls :
    /\ kind[c] = "convert"
    /\ args[c].quality < 1
    /\ result[c].state = "resolved"
    /\ commands[c][1][8][6] = "5"

\* C17: both commands of a convertToGif call are given -ss startTime and
\* -t (endTime - startTime), read the input name the call staged, and use
\* the same fps and output width; commands are issued only for a range with
\* endTime > startTime, and the call resolves, after both, with a Blob of
\* type image/gif holding the bytes of output.gif.
C17_SameWindowBothCommands ==
  \A c \in Calls :
    kind[c] = "convert" =>
      /\ Len(commands[c]) <= 2
      /\ commands[c] # << >> => args[c].endTime > args[c].startTime
      /\ \A i \in 1..Len(commands[c]) :
           /\ SubSeq(commands[c][i], 1, 5) =
                <<"-ss", ToString(args[c].startTime),
                  "-t", ToString(args[c].endTime - args[c].startTime), "-i">>
           /\ commands[c][i][6] = log[c][1].file
           /\ log[c][1].op = "writeFile"
      /\ Len(commands[c]) = 2 =>
           /\ commands[c][1][7] = "-vf" /\ commands[c][2][9] = "-lavfi"
           /\ SubSeq(commands[c][1][8], 1, 4) = SubSeq(commands[c][2][10], 1, 4)
           /\ SubSeq(commands[c][1][8], 1, 4) =
                <<"fps=", ToString(args[c].fps), ",scale=", ToString(args[c].outputWidth)>>
      /\ result[c].state = "resolved" =>
           /\ Len(commands[c]) = 2
           /\ result[c].value.type = "Blob"
           /\ result[c].value.text = <<"image/gif">>
           /\ result[c].value.data \in Calls

\* C17 witness: convertToGif(file, 2, 7) has resolved after two commands,
\* each scoped to -ss 2 -t 5.
C17_Witness ==
  \E c \in Calls :
    /\ kind[c] = "convert"
    /\ args[c].startTime = 2 /\ args[c].endTime = 7
    /\ result[c].state = "resolved"
    /\ Len(commands[c]) = 2
    /\ \A i \in 1..2 : SubSeq(commands[c][i], 1, 4) = <<"-ss", "2", "-t", "5">>

\* C14: checkBrowserSupport returns true exactly on a host where
\* SharedArrayBuffer is defined, WebAssembly is an object with an
\* instantiate function and window.crossOriginIsolated is true; it returns
\* false where only the isolation is missing.
C14_SupportTruthTable ==
  mountEffectRan =>
    /\ app.isBrowserSupported <=>
         /\ window.SharedArrayBuffer = "function"
         /\ window.WebAssembly = "object"
         /\ window.instantiate = "function"
         /\ window.crossOriginIsolated = "true"
    /\ window.crossOriginIsolated \in {"false", "undefined"} => ~app.isBrowserSupported

\* C14 witness: the probe has run on a host that lacks only the isolation.
C14_Witness ==
  /\ mountEffectRan
  /\ window = [IsolatedWindow EXCEPT !.crossOriginIsolated = "false"]
  /\ ~app.isBrowserSupported

\* C13: once the probe has returned false, no video is ever accepted and
\* convertToGif is never invoked, whatever the user does.
C13_UnsupportedDisablesConversion ==
  (mountEffectRan /\ ~checkBrowserSupport(window)) =>
    /\ app.videoFile = NoFile
    /\ videoElements = {}
    /\ awaiting = {}
    /\ \A c \in Calls : kind[c] = "none"

\* C13 witness: the page has mounted on a host without shared memory and
\* shows the compatibility message.
C13_Witness ==
  /\ mountEffectRan
  /\ window = [IsolatedWindow EXCEPT !.SharedArrayBuffer = "undefined"]
  /\ ~app.isBrowserSupported
  /\ app.error = UnsupportedMessage

\* C12: when the convertToGif call handleConvert awaits rejects, the error
\* text App stores is the message carried by that rejection.
C12_ShowsRejectionMessage ==
  [][\A c \in Calls :
       (c \in awaiting /\ result'[c].state = "rejected") =>
          app'.error = Join(result'[c].value.text)]_vars

\* The duration of the user's file named name.
DurationOf(name) == (CHOOSE f \in UserFiles : f.name = name).duration

\* C15: every range App passes to convertToGif satisfies
\* 0 <= startTime < endTime <= duration of the file being converted.
C15_RangeWithinCurrentVideo ==
  \A c \in Calls :
    kind[c] = "convert" =>
      /\ 0 <= args[c].startTime
      /\ args[c].startTime < args[c].endTime
      /\ args[c].endTime <= DurationOf(args[c].videoFile)

\* C18: once handleConvert has set isConverting, a state is eventually
\* reached in which isConverting is false and exactly one of gifUrl set and
\* error text non-empty holds.
C18_ConversionSettlesOneWay ==
  app.isConverting ~>
    (/\ ~app.isConverting
     /\ \/ app.gifUrl # null /\ app.error = ""
        \/ app.gifUrl = null /\ app.error # "")

\* C19: while a conversion started by handleConvert is awaited, and when it
\* settles, App's videoFile and timeRange are the file and range that were
\* passed to convertToGif.
C19_SourceImmutableWhileConverting ==
  [][\A c \in Calls :
       c \in awaiting =>
          /\ app'.videoFile.name = args[c].videoFile
          /\ app'.timeRange = [startTime |-> args[c].startTime,
                               endTime |-> args[c].endTime]]_vars


\* C21: every number handed to a progress callback is an integer between 0
\* and 100, and it is the integer nearest to the reported ratio times 100
\* (a half rounds up), the ratio being between 0 and 1.
C21_ProgressIsRoundedPercent ==
  delivered.receiver # null =>
    /\ delivered.ratio \in 0..1000
    /\ delivered.percent \in 0..100
    /\ 10 * delivered.percent - 5 <= delivered.ratio
    /\ delivered.ratio < 10 * delivered.percent + 5

\* A ratio of 0.495 reaches a callback as 50.
C21_Witness ==
  /\ delivered.receiver # null
  /\ delivered.ratio = 495
  /\ delivered.percent = 50

\* C22: when two successive progress events of one command reach the same
\* callback and the second ratio is not below the first, the second
\* percentage is not below the first.
C22_MonotonicWithinPass ==
  [][(/\ delivered.emitter # 0
      /\ delivered'.emitter = delivered.emitter
      /\ pc' = pc
      /\ delivered.receiver # null
      /\ delivered'.receiver = delivered.receiver
      /\ delivered.ratio <= delivered'.ratio)
     => delivered.percent <= delivered'.percent]_vars

\* The last event of a command, ratio 1, reaches the callback as 100.
C22_Witness ==
  /\ delivered.receiver # null
  /\ delivered.emitter # 0
  /\ pc[delivered.emitter] = "paletteuse"
  /\ delivered.ratio = 1000
  /\ delivered.percent = 100


\* C28: whenever control is back in the event loop, isLoaded and isLoading
\* are not both true, isLoaded implies that the engine instance exists, and
\* a convertToGif call has touched the file system or holds a running
\* command only if isLoaded is true.
C28_FlagConsistency ==
  /\ ~(isLoaded /\ isLoading)
  /\ isLoaded => ffmpeg # null
  /\ \A c \in Calls :
       (kind[c] = "convert" /\ (log[c] # << >> \/ running = c)) => isLoaded

\* A conversion that waited for another call's bring-up has staged its
\* input on the loaded engine.
C28_Witness ==
  \E c \in Calls :
    /\ kind[c] = "convert"
    /\ joined[c] # 0
    /\ bringUps[joined[c]].by # c
    /\ log[c] # << >>
    /\ isLoaded
    /\ ~isLoading


\* A file of media type exactly video/mp4 or video/webm and of at most
\* 100 * 1024 * 1024 bytes.
AcceptableUpload(f) ==
  /\ f.type \in {<<"video", "mp4">>, <<"video", "webm">>}
  /\ f.size <= 104857600

\* The file f reached App: it is the selected video and its metadata is
\* being read.
Forwarded(f) == app'.videoFile = f /\ f \in videoElements' /\ uploader'.error = ""

\* The file f was turned away: App is as before and the uploader shows an error.
TurnedAway == app' = app /\ videoElements' = videoElements /\ uploader'.error # ""

\* C23: a file dropped on or picked in the enabled upload area is forwarded
\* to App exactly when it is an MP4 or WebM video of at most 100 MB;
\* a rejected file leaves App's selected video as it was and sets a
\* non-empty uploader error; a file dropped while the area is disabled is
\* not forwarded.
C23_UploadValidation ==
  mountEffectRan =>
    \A f \in OfferedFiles \ videoElements :
      /\ ENABLED Drop(f)
      /\ IF app.isConverting \/ ~app.isBrowserSupported
           THEN ~ENABLED (Drop(f) /\ ~(app' = app /\ videoElements' = videoElements))
           ELSE /\ ENABLED FileInput(f)
                /\ IF AcceptableUpload(f)
                     THEN /\ ~ENABLED (Drop(f) /\ ~Forwarded(f))
                          /\ ~ENABLED (FileInput(f) /\ ~Forwarded(f))
                     ELSE /\ ~ENABLED (Drop(f) /\ ~TurnedAway)
                          /\ ~ENABLED (FileInput(f) /\ ~TurnedAway)

\* A file was rejected after a video had been selected: the selection stays.
C23_Witness ==
  /\ uploader.error = "File size must be less than 100MB"
  /\ app.videoFile \in UserFiles
  /\ app.videoFile.size = 104857600


\* The conversions App started that have not settled.
AppJobsInFlight == {c \in Calls : kind[c] = "convert" /\ result[c] = Pending}

\* C24: conversions started through App are serialized: at most one
\* convertToGif call of App is unsettled at any time, and while one is
\* unsettled isConverting is true, so the Convert button cannot start another.
C24_AppSerializesConversions ==
  /\ Cardinality(AppJobsInFlight) <= 1
  /\ AppJobsInFlight # {} => app.isConverting

\* A second conversion is running after the first one has settled.
C24_Witness ==
  /\ kind[1] = "convert"
  /\ result[1] # Pending
  /\ kind[2] = "convert"
  /\ result[2] = Pending
  /\ running = 2


\* C25: once the metadata of the selected video has loaded and the effects
\* have run, with no edit by the user, App's time range starts at 0 and
\* ends at the duration or at 10 seconds, whichever is smaller.
C25_InitialRangeIsFirstTenSeconds ==
  (/\ mountEffectRan
   /\ app.videoFile \in UserFiles
   /\ app.videoFile \notin videoElements)
  => /\ app.timeRange.startTime = 0
     /\ app.timeRange.endTime =
          IF app.videoFile.duration < 10 THEN app.videoFile.duration ELSE 10


\* C26: the metadata-load or metadata-error callback of a video that is no
\* longer the selected one leaves videoDuration, timeRange and error of the
\* selected video as they are.
C26_StaleMetadataIgnored ==
  [][\A f \in UserFiles :
       (f \in videoElements /\ f \notin videoElements' /\ f # app.videoFile)
       => /\ app'.videoDuration = app.videoDuration
          /\ app'.timeRange = app.timeRange
          /\ app'.error = app.error]_vars


\* C27: in every state with all effects run and no metadata awaited in which
\* the Convert button is enabled, the range App would pass to the conversion
\* is the start and end time that TimeRangeSelector holds and shows.
C27_SelectorAgreesWithApp ==
  (/\ mountEffectRan
   /\ videoElements = {}
   /\ app.videoFile # NoFile
   /\ app.isBrowserSupported
   /\ ~app.isConverting
   /\ app.timeRange.endTime > app.timeRange.startTime)
  => /\ app.timeRange.startTime = selector.startTime
     /\ app.timeRange.endTime = selector.endTime


\* C29: with the player mounted, after any sequence of clicks on the mute
\* button and moves of the volume slider, the isMuted flag the UI shows
\* equals the muted property of the video element.
C29_MuteFlagMatchesElement ==
  (mountEffectRan /\ app.videoFile # NoFile /\ app.isBrowserSupported)
  => player.isMuted = videoRef.muted


\* C30: a time of a whole number of milliseconds, formatted with
\* milliseconds and parsed back, is the same time.
C30_TimeTextRoundTrip ==
  timeField.stage = "read" => timeField.read = Seconds(timeField.millis)


\* The Number nearest to the time a text "mm:ss.f" denotes when f is read
\* as the decimal fraction of a second.
DecimalTime(text) ==
  LET parts == split(text, ":")
      secondParts == split(parts[2], ".")
      scale == 10^Len(secondParts[2])
      whole == parseInt(parts[1]) * 60 + parseInt(secondParts[1])
  IN  NumberOver(NumberOf(whole * scale + parseInt(secondParts[2])), scale)

\* C31: the digits after the dot of a typed text are read as a decimal
\* fraction of a second whatever their count: "00:05.5", "00:05.50" and
\* "00:05.500" are all read as 5.5 seconds.
C31_FractionIsDecimal ==
  timeField.stage = "typed" => timeField.read = DecimalTime(timeField.text)

====
